---------------------------- MODULE Spec2Model ----------------------------
(***************************************************************************)
(* A model of the feature-branching tool: five variants of one program     *)
(* that lists the open pull requests carrying the required labels,         *)
(* prepares an integration branch, applies the pull requests one by one    *)
(* and records the accepted ones in a ledger file.                         *)
(*                                                                         *)
(*   git_any    src/main.go 1-252        local git, any-of labels          *)
(*   tree_v1    src/main.go 254-517      git data API, tree composition    *)
(*   api_merge  src/main.go 519-894      pull-request merge API            *)
(*   tree_v2    src/unnamed/part_000     git data API, tree composition    *)
(*   git_all    src/unnamed/part_001     local git, all-of labels          *)
(*                                                                         *)
(* Strings that the code inspects character by character (labels, the      *)
(* -labels flag) are sequences of one-character strings.                   *)
(***************************************************************************)
EXTENDS Integers, Sequences, FiniteSets, TLC

\* ------------------------------------------------------------------ bounds
MaxRuns == 2
MaxFail == 1

\* ----------------------------------------------------------------- strings
Lower(c) == CASE c = "R" -> "r" [] c = "W" -> "w" [] OTHER -> c

ToLower(s) == [i \in 1..Len(s) |-> Lower(s[i])]

IsSpace(c) == c = " "

RECURSIVE TrimLeft(_)
TrimLeft(s) == IF s # <<>> /\ IsSpace(Head(s)) THEN TrimLeft(Tail(s)) ELSE s

RECURSIVE TrimRight(_)
TrimRight(s) ==
  IF s # <<>> /\ IsSpace(s[Len(s)]) THEN TrimRight(SubSeq(s, 1, Len(s) - 1)) ELSE s

TrimSpace(s) == TrimRight(TrimLeft(s))

\* strings.Split(s, ","): the empty string splits into one empty field.
RECURSIVE Split(_)
Split(s) ==
  IF \A i \in 1..Len(s) : s[i] # ","
  THEN <<s>>
  ELSE LET i == CHOOSE k \in 1..Len(s) :
                   s[k] = "," /\ \A j \in 1..(k - 1) : s[j] # ","
       IN  <<SubSeq(s, 1, i - 1)>> \o Split(SubSeq(s, i + 1, Len(s)))

SelectNonEmpty(ss) == SelectSeq(ss, LAMBDA x : x # <<>>)

MapSeq(f(_), ss) == [i \in 1..Len(ss) |-> f(ss[i])]

Range(ss) == {ss[i] : i \in 1..Len(ss)}

\* ------------------------------------------------------------------ labels
\* parseLabels of the local git variants: split, trim, drop the blank fields.
parseLabelsClean(input) ==
  IF input = <<>> THEN <<>> ELSE SelectNonEmpty(MapSeq(TrimSpace, Split(input)))

\* parseLabels of the tree variants: split only.
parseLabelsSplit(input) == IF input = <<>> THEN <<>> ELSE Split(input)

\* parseConfig of api_merge: strings.Split(labels, ",") whatever the flag holds.
parseLabelsRaw(input) == Split(input)

parseLabels(v, input) ==
  CASE v \in {"git_any", "git_all"} -> parseLabelsClean(input)
    [] v \in {"tree_v1", "tree_v2"} -> parseLabelsSplit(input)
    [] OTHER -> parseLabelsRaw(input)

Normalize(l) == ToLower(TrimSpace(l))

\* A rule that asks for every required label, both sides trimmed and lower-cased.
hasEveryLabel(prLabels, required) ==
  \A j \in 1..Len(required) :
     ToLower(TrimSpace(required[j])) \in
        {ToLower(TrimSpace(prLabels[i])) : i \in 1..Len(prLabels)}

\* any-of: both sides trimmed and lower-cased.
hasAnyLabel(prLabels, required) ==
  \E i \in 1..Len(prLabels) : Normalize(prLabels[i]) \in Range(MapSeq(Normalize, required))

\* all-of, git_all: both sides lower-cased, neither trimmed here.
hasAllLabels(prLabels, required) ==
  \A j \in 1..Len(required) : ToLower(required[j]) \in Range(MapSeq(ToLower, prLabels))

\* all-of, api_merge: required side trimmed, blank required labels skipped,
\* candidate side lower-cased only.
hasRequiredLabels(prLabels, required) ==
  \A j \in 1..Len(required) :
     LET reqLabel == TrimSpace(required[j])
     IN  reqLabel = <<>> \/ ToLower(reqLabel) \in Range(MapSeq(ToLower, prLabels))

\* ------------------------------------------------------------------- state
VARIABLES
  variant,    \* which of the five programs runs
  flags,      \* command line: [creds, labels, strategy]
  listing,    \* the repository's pull requests, in the order List returns them
  trunk,      \* remote trunk branch: its first-parent history, oldest first
  target,     \* remote integration branch: its history, <<>> when it does not exist
  open,       \* ids of the pull requests that are still open
  srcRefs,    \* ids of the pull requests whose source branch still exists
  nextSha,    \* object store: number of the next commit created
  pc,         \* position of main
  cfg,        \* cfg.RequiredLabels
  prs,        \* the qualified pull requests (ids), in order
  idx,        \* loop index into prs, 1-based
  mergedPRs,  \* main's mergedPRs slice
  base,       \* processPR: history of the base commit read from the target branch
  newCommit,  \* processPR: <<the commit created and not yet referenced>>, or <<>>
  local,      \* working copy: [hist: checked-out target branch, merging: MERGE_HEAD set]
  content,    \* updateMergeHistory: [merges, sha] read by getHistoryContent
  run,        \* number of the run in progress
  fails,      \* I/O failures so far
  ext,        \* the other writer of the repository: "idle" until it has "acted"
  attempts,   \* this run: <<[pr, ok]>> for every candidate main is done with
  writes,     \* this run: <<[op, ref, cand]>> for every remote ref write made
  candFails,  \* the I/O failures that struck while a candidate was being applied
  ledgerBefore, \* the ledger on the integration branch when this run started
  trunkBefore \* the history of the trunk when this run started

inputs == <<variant, flags, listing>>
repo == <<trunk, target, open, srcRefs, nextSha>>
proc == <<pc, cfg, prs, idx, mergedPRs, base, newCommit, local, content>>
counters == <<run, fails, ext>>
ghost == <<attempts, writes>>
atStart == <<ledgerBefore, trunkBefore>>
fixed == <<run, ext, atStart>>
vars == <<inputs, repo, proc, counters, ghost, candFails, atStart>>

Variants == {"git_any", "tree_v1", "api_merge", "tree_v2", "git_all"}
GitVariants == {"git_any", "git_all"}
TreeVariants == {"tree_v1", "tree_v2"}

\* -------------------------------------------------------------- repository
Sha(n) == <<"c", n>>
PRHead(id) == <<"pr", id>>
TrunkCommit ==
  [sha |-> <<"trunk", 0>>, kind |-> "trunk", by |-> "ext", pr |-> 0, tree |-> {}, ledger |-> <<>>]

\* A commit: who made it, the pull request it applies, the pr-<id>/<sha> paths its
\* tree adds and, for a commit of the ledger file, the file's records. Its first
\* parent is the commit before it in the history; a "merge" commit has PRHead(pr) as
\* second parent.
Entry(n, k, who, id, t, l) ==
  [sha |-> Sha(n), kind |-> k, by |-> who, pr |-> id, tree |-> t, ledger |-> l]

HeadSha(h) == h[Len(h)].sha

\* The ledger file as the branch history h holds it: whether it exists, and its records.
HasLedger(h) == \E i \in 1..Len(h) : h[i].kind = "ledger"
Ledger(h) ==
  IF HasLedger(h)
  THEN h[CHOOSE i \in 1..Len(h) :
            h[i].kind = "ledger" /\ \A j \in (i + 1)..Len(h) : h[j].kind # "ledger"].ledger
  ELSE <<>>

\* The blob sha of the ledger file: a hash of its content.
BlobSha(merges) == <<merges>>
NoSha == <<>>

MergeRecord(id, commit, tgt) == [pr |-> id, commit |-> commit, target |-> tgt, ts |-> run]

PR(id) == listing[id]

\* ------------------------------------------------------------------ inputs
LabelR == <<"r">>
LabelW == <<"w">>
LabelFlags == {<<>>, <<"r">>}
NumPRs == 2

\* The kinds of pull request a listing is drawn from: labelled as required or not,
\* and what the variant reads of it besides (the length of its commit list, its
\* mergeable state, whether its source branch exists in the working copy, whether
\* its head is an ancestor of the head of the pull request listed before it, as
\* with a pull request that another one was stacked on).
PRKinds(v) ==
  LET pr(l, n, m, b, s) ==
        [labels |-> <<l>>, ncommits |-> n, mergeable |-> m, localRef |-> b, stacked |-> s]
  IN  CASE v \in TreeVariants ->
             {pr(LabelR, 2, "clean", TRUE, FALSE), pr(LabelR, 0, "clean", TRUE, FALSE),
              pr(LabelW, 2, "clean", TRUE, FALSE)}
        [] v = "api_merge" ->
             {pr(LabelR, 1, "clean", TRUE, FALSE), pr(LabelR, 1, "dirty", TRUE, FALSE),
              pr(LabelW, 1, "clean", TRUE, FALSE)}
        [] v = "git_all" ->
             {pr(LabelR, 1, "clean", TRUE, FALSE), pr(LabelR, 1, "clean", FALSE, FALSE),
              pr(LabelR, 1, "clean", TRUE, TRUE), pr(LabelW, 1, "clean", TRUE, FALSE)}
        [] OTHER ->
             {pr(LabelR, 1, "clean", TRUE, FALSE), pr(LabelW, 1, "clean", TRUE, FALSE)}

WithId(p, i) ==
  [id |-> i, labels |-> p.labels, ncommits |-> p.ncommits, mergeable |-> p.mergeable,
   localRef |-> p.localRef, stacked |-> p.stacked]

\* Listings of up to NumPRs pull requests, numbered in listing order.
Listings(v) ==
  UNION {{[i \in 1..n |-> WithId(l[i], i)] : l \in [1..n -> PRKinds(v)]} : n \in 0..NumPRs}

Init ==
  /\ variant \in Variants
  /\ flags \in [creds : BOOLEAN, labels : LabelFlags,
                strategy : IF variant = "api_merge" THEN {"merge", "squash"} ELSE {"merge"}]
  /\ listing \in Listings(variant)
  /\ trunk = <<TrunkCommit>>
  /\ target = <<>>
  /\ open = 1..Len(listing)
  /\ srcRefs = 1..Len(listing)
  /\ nextSha = 1
  /\ pc = "start"
  /\ cfg = <<>>
  /\ prs = <<>>
  /\ idx = 1
  /\ mergedPRs = <<>>
  /\ base = <<>>
  /\ newCommit = <<>>
  /\ local = [hist |-> <<>>, merging |-> FALSE]
  /\ content = [merges |-> <<>>, sha |-> NoSha]
  /\ run = 1
  /\ fails = 0
  /\ ext = "idle"
  /\ attempts = <<>>
  /\ writes = <<>>
  /\ candFails = 0
  /\ ledgerBefore = <<>>
  /\ trunkBefore = <<TrunkCommit>>

\* An I/O call of this step fails (network, API or process error).
Failure == fails < MaxFail /\ fails' = fails + 1
NoFailure == fails' = fails

\* The same, for a call made while a candidate is being applied.
CandFailure == Failure /\ candFails' = candFails + 1
CandNoFailure == NoFailure /\ candFails' = candFails

Fatal == pc' = "fatal"

Wrote(op, ref, cand) == writes' = Append(writes, [op |-> op, ref |-> ref, cand |-> cand])

\* --------------------------------------------------------------- qualifier
Qualifies(v, p, required) ==
  CASE v = "git_all" -> hasAllLabels(p.labels, required) /\ p.localRef
    [] v = "api_merge" -> hasRequiredLabels(p.labels, required)
    [] OTHER -> hasAnyLabel(p.labels, required)

\* PullRequests.List(State: "open"), then the variant's filter; the result as ids.
OpenListing == SelectSeq(listing, LAMBDA p : p.id \in open)
filterPRs(v, required) ==
  LET q == SelectSeq(OpenListing, LAMBDA p : Qualifies(v, p, required))
  IN  [i \in 1..Len(q) |-> q[i].id]

\* main's loop: the position after the candidate at idx, or after an empty list.
AfterLoop(v) == IF v \in GitVariants THEN "history" ELSE IF v \in TreeVariants THEN "history" ELSE "done"
LoopEntry(v, n) == IF n = 0 THEN AfterLoop(v) ELSE "loop"

\* A loop that takes a skipped candidate up again.
Finish_retry(ok, recs) ==
  /\ attempts' = Append(attempts, [pr |-> prs[idx], ok |-> ok])
  /\ mergedPRs' = mergedPRs \o recs
  /\ idx' = IF ok THEN idx + 1 ELSE idx
  /\ pc' = IF ~ok THEN "loop" ELSE IF idx + 1 > Len(prs) THEN AfterLoop(variant) ELSE "loop"

\* main is done with the candidate at idx: accepted with record rec, or skipped.
Finish(ok, recs) ==
  /\ attempts' = Append(attempts, [pr |-> prs[idx], ok |-> ok])
  /\ mergedPRs' = mergedPRs \o recs
  /\ idx' = idx + 1
  /\ pc' = IF idx + 1 > Len(prs) THEN AfterLoop(variant) ELSE "loop"

\* -------------------------------------------------------------------- main
parseConfig ==
  /\ pc = "start"
  /\ IF ~flags.creds /\ variant # "api_merge"
     THEN Fatal /\ cfg' = cfg
     ELSE /\ cfg' = parseLabels(variant, flags.labels)
          /\ pc' = IF variant \in GitVariants THEN "fetch" ELSE "prepare"
  /\ UNCHANGED <<inputs, repo, prs, idx, mergedPRs, base, newCommit, local, content,
                 counters, ghost, candFails, atStart>>

\* fetchQualifiedPRs, getQualifiedPRs, getQualifiedPullRequests
fetchQualifiedPRs ==
  /\ pc = "fetch"
  /\ \/ Failure /\ Fatal /\ prs' = prs
     \/ /\ NoFailure
        /\ prs' = filterPRs(variant, cfg)
        /\ pc' = IF variant \in GitVariants
                 THEN "prepare"
                 ELSE LoopEntry(variant, Len(prs'))
  /\ UNCHANGED <<inputs, repo, cfg, idx, mergedPRs, base, newCommit, local, content,
                 fixed, candFails, ghost>>

\* ------------------------------------------------------- local git variants
\* A target branch left as it is where the working copy has one.
checkoutKeep(old, head) == IF old # <<>> THEN old ELSE head

\* git checkout -B target: the branch is created, or reset if it exists, at HEAD.
checkoutB(old, head) == head

\* git checkout trunk; git branch -D target (errors ignored); git checkout -B target
recreateTargetBranch ==
  /\ pc = "prepare" /\ variant \in GitVariants
  /\ \/ Failure /\ Fatal /\ local' = local
     \/ /\ local.merging                  \* git checkout refuses on an unmerged index
        /\ NoFailure /\ Fatal /\ local' = local
     \/ /\ ~local.merging
        /\ NoFailure
        /\ local' = [hist |-> checkoutB(local.hist, trunk), merging |-> FALSE]
        /\ pc' = LoopEntry(variant, Len(prs))
  /\ UNCHANGED <<inputs, repo, cfg, prs, idx, mergedPRs, base, newCommit, content,
                 fixed, candFails, ghost>>

\* The commit main records for an accepted candidate: HEAD, or the pull request's head.
RecordedCommit(v, id, h) == IF v = "git_any" THEN HeadSha(h) ELSE PRHead(id)

\* The head of pull request id is already in the history h: the pull request listed
\* before it, whose head descends from it, has been merged.
UpToDate(id, h) ==
  /\ PR(id).stacked /\ id > 1
  /\ \E i \in 1..Len(h) : h[i].kind = "merge" /\ h[i].pr = id - 1

\* git fetch origin pull/N/head:pr-N, then git merge --no-ff. git_any names no commit
\* to merge and the branch just created tracks no upstream: git merge fails there.
\* A conflict leaves the merge in progress, and git refuses to merge until it is
\* concluded. Merging a commit that the branch already holds succeeds and commits
\* nothing.
processPR_git ==
  /\ pc = "loop" /\ variant \in GitVariants
  /\ LET id == prs[idx]
         merged == Append(local.hist, Entry(nextSha, "merge", "run", id, {}, <<>>))
     IN
     \/ /\ CandFailure                                              \* fetch failed
        /\ Finish(FALSE, <<>>)
        /\ UNCHANGED <<local, nextSha>>
     \/ /\ variant = "git_any" \/ local.merging                 \* git merge refuses
        /\ CandNoFailure
        /\ Finish(FALSE, <<>>)
        /\ UNCHANGED <<local, nextSha>>
     \/ /\ variant = "git_all" /\ ~local.merging /\ ~UpToDate(id, local.hist)   \* conflict
        /\ CandFailure
        /\ local' = [local EXCEPT !.merging = TRUE]
        /\ Finish(FALSE, <<>>)
        /\ UNCHANGED nextSha
     \/ /\ variant = "git_all" /\ ~local.merging /\ ~UpToDate(id, local.hist)   \* merged
        /\ CandNoFailure
        /\ local' = [local EXCEPT !.hist = merged]
        /\ nextSha' = nextSha + 1
        /\ Finish(TRUE, <<MergeRecord(id, RecordedCommit(variant, id, merged), "none")>>)
     \/ /\ variant = "git_all" /\ ~local.merging /\ UpToDate(id, local.hist)
        /\ CandNoFailure                               \* "Already up to date.", exit 0
        /\ Finish(TRUE, <<MergeRecord(id, RecordedCommit(variant, id, local.hist), "none")>>)
        /\ UNCHANGED <<local, nextSha>>
  /\ UNCHANGED <<inputs, trunk, target, open, srcRefs, cfg, prs, base, newCommit,
                 content, fixed, writes>>

\* os.WriteFile(.ref-history, this run's records); git add; git commit.
\* git commit refuses while the index holds unmerged files.
updateRefHistory_git ==
  /\ pc = "history" /\ variant \in GitVariants
  /\ \/ /\ local.merging
        /\ NoFailure /\ Fatal
        /\ UNCHANGED <<local, nextSha>>
     \/ /\ ~local.merging
        /\ Failure /\ Fatal
        /\ UNCHANGED <<local, nextSha>>
     \/ /\ ~local.merging
        /\ NoFailure
        /\ local' = [local EXCEPT
                       !.hist = Append(@, Entry(nextSha, "ledger", "run", 0, {}, mergedPRs))]
        /\ nextSha' = nextSha + 1
        /\ pc' = "push"
  /\ UNCHANGED <<inputs, trunk, target, open, srcRefs, cfg, prs, idx, mergedPRs, base,
                 newCommit, content, fixed, candFails, ghost>>

\* git push origin target --force
pushChanges ==
  /\ pc = "push"
  /\ \/ Failure /\ Fatal /\ UNCHANGED <<target, writes>>
     \/ /\ NoFailure
        /\ target' = local.hist
        /\ Wrote("push", "target", 0)
        /\ pc' = "done"
  /\ UNCHANGED <<inputs, trunk, open, srcRefs, nextSha, cfg, prs, idx, mergedPRs, base,
                 newCommit, local, content, fixed, candFails, attempts>>

\* ------------------------------------------------------------ API variants
\* ensureTargetBranch (tree variants), createOrUpdateTargetBranch (api_merge):
\* GetBranch(target); on 404 GetBranch(trunk) and CreateRef(target -> trunk head).
\* Any other failure is returned (or, with no response at all, dereferenced) and
\* ends main.
ensureTargetBranch ==
  /\ pc = "prepare" /\ variant \notin GitVariants
  /\ \/ /\ Failure \/ (~flags.creds /\ NoFailure)
        /\ Fatal
        /\ UNCHANGED <<target, writes>>
     \/ /\ flags.creds /\ target # <<>>
        /\ NoFailure
        /\ pc' = "fetch"
        /\ UNCHANGED <<target, writes>>
     \/ /\ flags.creds /\ target = <<>>
        /\ NoFailure
        /\ target' = trunk
        /\ Wrote("create", "target", 0)
        /\ pc' = "fetch"
  /\ UNCHANGED <<inputs, trunk, open, srcRefs, nextSha, cfg, prs, idx, mergedPRs, base,
                 newCommit, local, content, fixed, candFails, attempts>>

\* processPR, first part: Repositories.GetCommit(target). tree_v2 answers a 404 with
\* createTargetBranch and reads again; tree_v1 returns the error.
processPR_base ==
  /\ pc = "loop" /\ variant \in TreeVariants
  /\ \/ /\ CandFailure                                   \* GetCommit fails, not a 404
        /\ Finish(FALSE, <<>>)
        /\ UNCHANGED <<target, base, writes>>
     \/ /\ target = <<>> /\ variant = "tree_v1"
        /\ CandNoFailure
        /\ Finish(FALSE, <<>>)
        /\ UNCHANGED <<target, base, writes>>
     \/ /\ target = <<>> /\ variant = "tree_v2"      \* created, second read fails
        /\ CandFailure
        /\ target' = trunk
        /\ Wrote("create", "target", idx)
        /\ Finish(FALSE, <<>>)
        /\ UNCHANGED base
     \/ /\ target = <<>> /\ variant = "tree_v2"      \* created and read
        /\ CandNoFailure
        /\ target' = trunk
        /\ Wrote("create", "target", idx)
        /\ base' = trunk
        /\ pc' = "pr_build"
        /\ UNCHANGED <<idx, mergedPRs, attempts>>
     \/ /\ target # <<>>
        /\ CandNoFailure
        /\ base' = target
        /\ pc' = "pr_build"
        /\ UNCHANGED <<target, idx, mergedPRs, attempts, writes>>
  /\ UNCHANGED <<inputs, trunk, open, srcRefs, nextSha, cfg, prs, newCommit, local,
                 content, fixed>>

\* The tree entries pr-<id>/<sha>, one per commit of the pull request.
Paths(id) == {<<id, k>> : k \in 1..PR(id).ncommits}

\* processPR, second part: ListCommits, Git.GetCommit per commit, CreateTree,
\* CreateCommit with the base commit as sole parent. tree_v2 rejects an empty commit
\* list and skips a commit it cannot fetch; tree_v1 accepts an empty list and
\* returns the error of a commit it cannot fetch.
processPR_build ==
  /\ pc = "pr_build"
  /\ LET id == prs[idx]
         commit(t) == Entry(nextSha, "compose", "run", id, t, <<>>)
     IN
     \/ /\ CandFailure
        /\ Finish(FALSE, <<>>)
        /\ UNCHANGED <<newCommit, nextSha>>
     \/ /\ variant = "tree_v2" /\ PR(id).ncommits = 0
        /\ CandNoFailure
        /\ Finish(FALSE, <<>>)
        /\ UNCHANGED <<newCommit, nextSha>>
     \/ /\ variant = "tree_v2" /\ PR(id).ncommits > 0
        /\ CandFailure
        /\ \E k \in 1..PR(id).ncommits : newCommit' = <<commit(Paths(id) \ {<<id, k>>})>>
        /\ nextSha' = nextSha + 1
        /\ pc' = "pr_update"
        /\ UNCHANGED <<idx, mergedPRs, attempts>>
     \/ /\ variant = "tree_v1" \/ PR(id).ncommits > 0
        /\ CandNoFailure
        /\ newCommit' = <<commit(Paths(id))>>
        /\ nextSha' = nextSha + 1
        /\ pc' = "pr_update"
        /\ UNCHANGED <<idx, mergedPRs, attempts>>
  /\ UNCHANGED <<inputs, trunk, target, open, srcRefs, cfg, prs, base, local, content,
                 fixed, writes>>

\* An UpdateRef whose failure is reported after the reference has been moved.
processPR_update_moved ==
  /\ pc = "pr_update"
  /\ target # <<>>
  /\ CandFailure
  /\ target' = Append(base, newCommit[1])
  /\ Wrote("update", "target", idx)
  /\ Finish(FALSE, <<>>)
  /\ newCommit' = <<>>
  /\ UNCHANGED <<inputs, trunk, open, srcRefs, nextSha, cfg, prs, base, local, content,
                 fixed>>

\* processPR, last part: Git.UpdateRef(refs/heads/target -> new commit, force = true).
processPR_update ==
  /\ pc = "pr_update"
  /\ \/ /\ CandFailure \/ (target = <<>> /\ CandNoFailure)
        /\ Finish(FALSE, <<>>)
        /\ UNCHANGED <<target, writes>>
     \/ /\ target # <<>>
        /\ CandNoFailure
        /\ target' = Append(base, newCommit[1])
        /\ Wrote("update", "target", idx)
        /\ Finish(TRUE, <<MergeRecord(prs[idx], newCommit[1].sha, "none")>>)
  /\ newCommit' = <<>>
  /\ UNCHANGED <<inputs, trunk, open, srcRefs, nextSha, cfg, prs, base, local, content,
                 fixed>>

\* updateRefHistory of the tree variants: Repositories.CreateFile(.ref-history) on the
\* target branch with this run's records and no blob sha. The contents API creates
\* the file only where there is none.
updateRefHistory_api ==
  /\ pc = "history" /\ variant \in TreeVariants
  /\ \/ /\ Failure \/ ((target = <<>> \/ HasLedger(target)) /\ NoFailure)
        /\ Fatal
        /\ UNCHANGED <<target, nextSha, writes>>
     \/ /\ target # <<>> /\ ~HasLedger(target)
        /\ NoFailure
        /\ target' = Append(target, Entry(nextSha, "ledger", "run", 0, {}, mergedPRs))
        /\ nextSha' = nextSha + 1
        /\ Wrote("ledger", "target", 0)
        /\ pc' = "done"
  /\ UNCHANGED <<inputs, trunk, open, srcRefs, cfg, prs, idx, mergedPRs, base, newCommit,
                 local, content, fixed, candFails, attempts>>

\* --------------------------------------------------------------- api_merge
\* handlePullRequest, first part: the mergeable-state check and executeMerge.
\* PullRequests.Merge merges the pull request into its base branch, which is the
\* trunk (the listing is filtered by Base: trunk), and closes it.
handlePullRequest_merge ==
  /\ pc = "loop" /\ variant = "api_merge"
  /\ LET id == prs[idx]
     IN
     \/ /\ PR(id).mergeable # "clean"
        /\ CandNoFailure
        /\ Finish(FALSE, <<>>)
        /\ UNCHANGED <<trunk, open, nextSha, newCommit, writes>>
     \/ /\ PR(id).mergeable = "clean"
        /\ CandFailure
        /\ Finish(FALSE, <<>>)
        /\ UNCHANGED <<trunk, open, nextSha, newCommit, writes>>
     \/ /\ PR(id).mergeable = "clean"
        /\ CandNoFailure
        /\ newCommit' = <<Entry(nextSha, flags.strategy, "run", id, {}, <<>>)>>
        /\ trunk' = Append(trunk, newCommit'[1])
        /\ nextSha' = nextSha + 1
        /\ open' = open \ {id}
        /\ Wrote("merge", "trunk", idx)
        /\ pc' = "h_read"
        /\ UNCHANGED <<idx, mergedPRs, attempts>>
  /\ UNCHANGED <<inputs, target, srcRefs, cfg, prs, base, local, content, fixed>>

\* A read of the ledger file that reports a missing file as an error.
getHistoryContent_strict ==
  /\ pc = "h_read"
  /\ \/ /\ Failure \/ (~(target # <<>> /\ HasLedger(target)) /\ NoFailure)
        /\ pc' = "h_cleanup"
        /\ UNCHANGED content
     \/ /\ NoFailure
        /\ target # <<>> /\ HasLedger(target)
        /\ content' = [merges |-> Ledger(target), sha |-> BlobSha(Ledger(target))]
        /\ pc' = "h_write"
  /\ UNCHANGED <<inputs, repo, cfg, prs, idx, mergedPRs, base, newCommit, local, fixed, candFails,
                 ghost>>

\* updateMergeHistory, first part: getHistoryContent reads the ledger file and its
\* blob sha from the target branch; a 404 reads as no content and no sha. Another
\* error is returned to handlePullRequest, which logs it.
getHistoryContent ==
  /\ pc = "h_read"
  /\ \/ /\ Failure
        /\ pc' = "h_cleanup"
        /\ UNCHANGED content
     \/ /\ NoFailure
        /\ content' = IF target # <<>> /\ HasLedger(target)
                      THEN [merges |-> Ledger(target), sha |-> BlobSha(Ledger(target))]
                      ELSE [merges |-> <<>>, sha |-> NoSha]
        /\ pc' = "h_write"
  /\ UNCHANGED <<inputs, repo, cfg, prs, idx, mergedPRs, base, newCommit, local, fixed, candFails,
                 ghost>>

\* A contents API that accepts whatever sha a write of the ledger file carries.
AnySha(h) == content.sha

\* The blob sha the contents API expects for a write of the ledger file.
CurrentSha(h) == IF HasLedger(h) THEN BlobSha(Ledger(h)) ELSE NoSha

\* updateMergeHistory, second part: append the record and commitHistoryUpdate, a
\* CreateFile carrying the sha read. A failure is logged by handlePullRequest.
commitHistoryUpdate ==
  /\ pc = "h_write"
  /\ LET rec == MergeRecord(prs[idx], newCommit[1].sha, "target")
     IN
     \/ /\ Failure \/ ((target = <<>> \/ content.sha # CurrentSha(target)) /\ NoFailure)
        /\ UNCHANGED <<target, nextSha, writes>>
     \/ /\ target # <<>> /\ content.sha = CurrentSha(target)
        /\ NoFailure
        /\ target' = Append(target,
                            Entry(nextSha, "ledger", "run", 0, {}, Append(content.merges, rec)))
        /\ nextSha' = nextSha + 1
        /\ Wrote("ledger", "target", idx)
  /\ pc' = "h_cleanup"
  /\ UNCHANGED <<inputs, trunk, open, srcRefs, cfg, prs, idx, mergedPRs, base, newCommit,
                 local, content, fixed, candFails, attempts>>

\* handlePullRequest, last part: deleteFeatureBranch under squash and rebase.
deleteFeatureBranch ==
  /\ pc = "h_cleanup"
  /\ \/ /\ flags.strategy = "squash"
        /\ Failure
        /\ UNCHANGED <<srcRefs, writes>>
     \/ /\ flags.strategy = "squash"
        /\ NoFailure
        /\ srcRefs' = srcRefs \ {prs[idx]}
        /\ Wrote("delete", "src", idx)
     \/ /\ flags.strategy # "squash"
        /\ NoFailure
        /\ UNCHANGED <<srcRefs, writes>>
  /\ Finish(TRUE, <<>>)
  /\ newCommit' = <<>>
  /\ UNCHANGED <<inputs, trunk, target, open, nextSha, cfg, prs, base, local, content,
                 fixed, candFails>>

\* ------------------------------------------------------------- environment
\* The tool is started again: a later workflow run, on a fresh checkout or in the
\* working copy the run before left behind.
StartRun ==
  /\ pc \in {"done", "fatal"}
  /\ run < MaxRuns
  /\ run' = run + 1
  /\ fails' = fails
  /\ pc' = "start"
  /\ cfg' = <<>>
  /\ prs' = <<>>
  /\ idx' = 1
  /\ mergedPRs' = <<>>
  /\ base' = <<>>
  /\ newCommit' = <<>>
  /\ local' \in {[hist |-> <<>>, merging |-> FALSE], local}
  /\ content' = [merges |-> <<>>, sha |-> NoSha]
  /\ attempts' = <<>>
  /\ writes' = <<>>
  /\ ledgerBefore' = Ledger(target)
  /\ trunkBefore' = trunk
  /\ UNCHANGED <<inputs, repo, ext, candFails>>

\* One other writer (a person, another workflow) makes one change to the integration
\* branch while the tool runs. It acts just before one of the tool's accesses to the
\* branch: a change placed earlier, among the steps that do not touch the branch,
\* leads to the same states.
AccessesTarget ==
  \/ pc \in {"pr_update", "h_read", "h_write", "push"}
  \/ pc = "prepare" /\ variant \notin GitVariants
  \/ pc \in {"loop", "history"} /\ variant \in TreeVariants

\* Another writer pushes a commit to the integration branch.
ExtPush ==
  /\ AccessesTarget /\ ext = "idle" /\ target # <<>>
  /\ target' = Append(target, Entry(nextSha, "ext", "ext", 0, {}, <<>>))
  /\ nextSha' = nextSha + 1
  /\ ext' = "acted"
  /\ UNCHANGED <<inputs, trunk, open, srcRefs, proc, run, fails, ghost, candFails, atStart>>

\* Another writer deletes the integration branch.
ExtDelete ==
  /\ AccessesTarget /\ ext = "idle" /\ target # <<>>
  /\ target' = <<>>
  /\ ext' = "acted"
  /\ UNCHANGED <<inputs, trunk, open, srcRefs, nextSha, proc, run, fails, ghost, candFails, atStart>>

\* Another writer appends a record to the ledger file on the integration branch.
ExtLedger ==
  /\ AccessesTarget /\ ext = "idle" /\ target # <<>>
  /\ target' = Append(target,
                      Entry(nextSha, "ledger", "ext", 0, {},
                            Append(Ledger(target), MergeRecord(0, Sha(0), "ext"))))
  /\ nextSha' = nextSha + 1
  /\ ext' = "acted"
  /\ UNCHANGED <<inputs, trunk, open, srcRefs, proc, run, fails, ghost, candFails, atStart>>

External == ExtPush \/ ExtDelete \/ ExtLedger

Program ==
  \/ parseConfig
  \/ fetchQualifiedPRs
  \/ recreateTargetBranch
  \/ processPR_git
  \/ updateRefHistory_git
  \/ pushChanges
  \/ ensureTargetBranch
  \/ processPR_base
  \/ processPR_build
  \/ processPR_update
  \/ updateRefHistory_api
  \/ handlePullRequest_merge
  \/ getHistoryContent
  \/ commitHistoryUpdate
  \/ deleteFeatureBranch

Next == Program \/ StartRun \/ External

Spec == Init /\ [][Next]_vars

\* The program is sequential and every call it makes returns: its next step is
\* always taken.
LiveSpec == Spec /\ WF_vars(Program)

\* ------------------------------------------------------------------ claims
IsPrefix(a, b) == Len(a) <= Len(b) /\ SubSeq(b, 1, Len(a)) = a

Accepted == {i \in 1..Len(attempts) : attempts[i].ok}
Skipped == {i \in 1..Len(attempts) : ~attempts[i].ok}

RunEnded == pc \in {"done", "fatal"}

\* C1: a candidate whose application failed has caused no write of the integration
\* branch pointer by the run (the head is as it was before the candidate), and no
\* MergeRecord of this run names it, neither in main's list nor in the ledger file.
C1_FailedCandidateLeavesNoTrace ==
  \A i \in Skipped :
    /\ \A k \in 1..Len(writes) : ~(writes[k].ref = "target" /\ writes[k].cand = i)
    /\ \A k \in 1..Len(mergedPRs) : mergedPRs[k].pr # attempts[i].pr
    /\ \A k \in 1..Len(Ledger(target)) :
         ~(Ledger(target)[k].pr = attempts[i].pr /\ Ledger(target)[k].ts = run)

\* C2: the ledger is append-only across runs. When a run has ended, and no I/O call
\* failed and no other writer acted, the ledger on the integration branch is the
\* ledger that was there when the run started followed by one record per candidate
\* this run accepted: nothing deleted, reordered or changed, N records after N runs
\* of one accepted candidate each.
C2_LedgerAppendOnly ==
  (RunEnded /\ fails = 0 /\ ext = "idle") =>
     /\ IsPrefix(ledgerBefore, Ledger(target))
     /\ Len(Ledger(target)) = Len(ledgerBefore) + Cardinality(Accepted)

\* The commits other writers put on the integration branch with history h.
ExtCommits(h) == {h[i].sha : i \in {j \in 1..Len(h) : h[j].by = "ext"}}

\* C3: the tool never overwrites a commit of another writer: every step of the tool
\* leaves on the integration branch each commit that another writer pushed to it
\* (an update based on a head that has since moved is rejected instead).
C3_ExternalCommitNeverLost ==
  [][Program => ExtCommits(target) \subseteq ExtCommits(target')]_vars

\* The write-back of the ledger file through the contents API.
LedgerWriteBack == commitHistoryUpdate \/ updateRefHistory_api

\* The records another writer put in the ledger l.
ExtRecords(l) == {r \in Range(l) : r.target = "ext"}

\* The revision of the ledger file the write-back is based on: the blob sha read by
\* getHistoryContent, or no file at all where the file is written without reading it.
TokenRead == IF variant = "api_merge" THEN content.sha ELSE <<>>

\* The ledger file on the branch is no longer the revision the write-back is based on.
LedgerChangedSinceRead ==
  TokenRead # (IF HasLedger(target) THEN <<Ledger(target)>> ELSE <<>>)

C5_CandidateErrorNeverAbortsRun ==
  (run = 1 /\ ext = "idle" /\ flags.creds /\ fails = candFails) => pc # "fatal"

\* A step in which the preparation of the integration branch fails.
LifecycleFailed == pc = "prepare" /\ fails' # fails

\* A step in which the ledger is to be written and is not.
LedgerWriteFailed ==
  \/ pc = "h_read" /\ fails' # fails
  \/ pc = "h_write" /\ target' = target
  \/ pc = "history" /\ target' = target /\ local' = local

\* C6: a failure of the preparation of the integration branch or of a ledger write
\* ends the run with a fatal error: the step in which it happens takes main to its
\* fatal exit, so that no candidate is applied after it and the run does not go on
\* or end as successful.
C6_LifecycleAndLedgerFailuresAreFatal ==
  [][(Program /\ (LifecycleFailed \/ LedgerWriteFailed)) => pc' = "fatal"]_vars

\* C7: every run that gets past branch preparation writes the ledger: a run that has
\* ended without a fatal error has made a ledger write, also when no candidate
\* qualified or every candidate failed.
C7_EveryRunWritesLedger ==
  pc = "done" => \E k \in 1..Len(writes) : writes[k].op \in {"ledger", "push"}

\* The pull requests of the records this run put in the ledger, and the pull
\* requests it accepted, both in order.
RunRecords ==
  LET l == SelectSeq(Ledger(target), LAMBDA r : r.ts = run /\ r.target # "ext")
  IN  [i \in 1..Len(l) |-> l[i].pr]
AcceptedPRs ==
  LET a == SelectSeq(attempts, LAMBDA t : t.ok)
  IN  [i \in 1..Len(a) |-> a[i].pr]

\* C8: the ledger is written once per run and after the last candidate: no ledger
\* write is made while a candidate is being applied, a run makes at most one, and
\* when a run has ended well (no I/O failure, no other writer) the records it put
\* in the ledger are those of the candidates it accepted, in that order.
C8_LedgerWrittenOnceAfterCandidates ==
  /\ \A k \in 1..Len(writes) : writes[k].op = "ledger" => writes[k].cand = 0
  /\ Cardinality({k \in 1..Len(writes) : writes[k].op = "ledger"}) <= 1
  /\ (pc = "done" /\ fails = 0 /\ ext = "idle") => RunRecords = AcceptedPRs

\* The -labels flag names no label: every field of it is blank.
NoRequiredLabel(input) == \A i \in 1..Len(Split(input)) : TrimSpace(Split(input)[i]) = <<>>

\* C9: a run whose required-label set is empty stops with a configuration error: no
\* candidate qualifies or is attempted, and no branch or ledger write is made.
C9_EmptyLabelSetIsConfigurationError ==
  NoRequiredLabel(flags.labels) =>
     /\ prs = <<>> /\ attempts = <<>> /\ writes = <<>>
     /\ pc \in {"start", "fatal"}

\* ------------------------------------------------------- label matching
\* Label names as they are written: upper or lower case, with or without blanks
\* around them.
LabelPool == {<<"r">>, <<"R">>, <<" ", "r", " ">>, <<"w">>}

\* One open pull request with one label, and one required label.
InitLabels ==
  /\ variant \in Variants
  /\ flags \in [creds : BOOLEAN, labels : LabelPool, strategy : {"merge"}]
  /\ listing \in {<<[id |-> 1, labels |-> <<l>>, ncommits |-> 1, mergeable |-> "clean",
                     localRef |-> TRUE, stacked |-> FALSE]>> : l \in LabelPool}
  /\ trunk = <<TrunkCommit>>
  /\ target = <<>>
  /\ open = {1}
  /\ srcRefs = {1}
  /\ nextSha = 1
  /\ pc = "start"
  /\ cfg = <<>>
  /\ prs = <<>>
  /\ idx = 1
  /\ mergedPRs = <<>>
  /\ base = <<>>
  /\ newCommit = <<>>
  /\ local = [hist |-> <<>>, merging |-> FALSE]
  /\ content = [merges |-> <<>>, sha |-> NoSha]
  /\ run = 1
  /\ fails = 0
  /\ ext = "idle"
  /\ attempts = <<>>
  /\ writes = <<>>
  /\ candFails = 0
  /\ ledgerBefore = <<>>
  /\ trunkBefore = <<TrunkCommit>>

\* The run up to the qualified list.
NextLabels == parseConfig \/ ensureTargetBranch \/ recreateTargetBranch \/ fetchQualifiedPRs

SpecLabels == InitLabels /\ [][NextLabels]_vars

\* The list of qualified pull requests has been computed.
Filtered ==
  /\ fails = 0
  /\ IF variant \in GitVariants THEN pc \in {"prepare", "loop", "history"}
                                ELSE pc \in {"loop", "history", "done"}

\* C10: a candidate label and a required label match exactly when they are equal
\* after trimming the blanks around them and lower-casing them, on both sides: with
\* one required label and one pull request carrying one label, the pull request
\* qualifies exactly when the two normalised names are equal.
C10_LabelMatchTrimsAndLowersBothSides ==
  Filtered => ((prs # <<>>) <=> (Normalize(flags.labels) = Normalize(PR(1).labels[1])))

\* The label rule of the variant, on a pull request's labels alone.
LabelMatch(v, p, required) ==
  CASE v = "git_all" -> hasAllLabels(p.labels, required)
    [] v = "api_merge" -> hasRequiredLabels(p.labels, required)
    [] OTHER -> hasAnyLabel(p.labels, required)

\* The pull requests of the open listing that match the label rule, in listing order.
MatchingIds ==
  LET q == SelectSeq(OpenListing, LAMBDA p : LabelMatch(variant, p, cfg))
  IN  [i \in 1..Len(q) |-> q[i].id]

\* C11: the qualified list is the subsequence of the open listing made of exactly
\* the pull requests that match the label rule, in the listing's order: whenever the
\* list is computed, it holds every matching pull request and no other, not re-sorted.
C11_QualifiedListIsLabelFilter ==
  [][(fetchQualifiedPRs /\ pc' # "fatal") => prs' = MatchingIds]_vars

\* The branch has just been prepared in the working copy: no candidate handled yet.
GitPrepared == variant \in GitVariants /\ pc \in {"loop", "history"} /\ attempts = <<>>

\* C12: branch preparation in reset mode leaves the integration branch of the working
\* copy at the trunk head, whether or not the branch existed and whatever was merged
\* into it before; so preparing again on an unchanged trunk gives the same head.
C12_ResetLeavesBranchAtTrunk ==
  GitPrepared => (local.hist = trunk /\ ~local.merging)

\* A second run has prepared the branch while the remote branch still holds a merge
\* of the run before.
C12_Witness ==
  /\ GitPrepared /\ run = 2 /\ local.hist = trunk
  /\ \E i \in 1..Len(target) : target[i].kind = "merge"

\* A step that accepts a candidate: its commit is created and given to a branch.
AcceptStep ==
  \/ processPR_update /\ target' # target
  \/ handlePullRequest_merge /\ newCommit' # <<>>

\* The commit of the candidate accepted by an AcceptStep.
AcceptedCommit == IF pc = "pr_update" THEN newCommit[1] ELSE newCommit'[1]

\* C13: branch preparation in additive mode creates the integration branch at the
\* trunk head only when it does not exist and leaves the head of an existing branch
\* unchanged; and that head is the base for this run's merges: with no other writer,
\* every candidate accepted puts its commit on top of the integration branch as it is.
C13_AdditivePreparationKeepsHead ==
  [][/\ ensureTargetBranch =>
          IF target = <<>> THEN target' \in {<<>>, trunk} ELSE target' = target
     /\ (AcceptStep /\ ext = "idle") => target' = Append(target, AcceptedCommit)]_vars

\* The pull requests this run has accepted so far.
AcceptedIds == {attempts[i].pr : i \in Accepted}

\* A commit the tool may leave on the integration branch on top of the snapshot:
\* the commit of an accepted candidate, or a commit of the ledger file.
FromAcceptedCandidate(c) ==
  \/ c.kind \in {"compose", "merge", "squash"} /\ c.by = "run"
  \/ c.kind = "ledger"

\* C14: in every reachable state of a run past branch preparation, if no other writer
\* has touched the integration branch, the branch (when it exists) is the trunk as it was at run
\* start followed by zero or more commits, each the commit of a candidate that was
\* accepted (or the ledger file's); it never leaves out the trunk snapshot.
C14_HeadIsSnapshotPlusAccepted ==
  (ext = "idle" /\ target # <<>> /\ pc \notin {"start", "prepare", "fatal"}) =>
     /\ IsPrefix(trunkBefore, target)
     /\ \A i \in (Len(trunkBefore) + 1)..Len(target) : FromAcceptedCandidate(target[i])

\* The run squashes: the squash strategy of api_merge, or the tree composition,
\* whose commits are titled "[squash]".
Squashing == variant \in TreeVariants \/ flags.strategy = "squash"

\* C15: under the squash strategy and the tree composition, each accepted candidate
\* adds exactly one commit to the integration branch, however many commits the
\* candidate has, and the commit's sole parent is the head of the integration branch
\* as it was just before this candidate (checked with no other writer).
C15_SquashAddsOneCommitOnHead ==
  [][(AcceptStep /\ Squashing /\ ext = "idle") =>
        /\ Len(target') = Len(target) + 1
        /\ SubSeq(target', 1, Len(target)) = target
        /\ target'[Len(target')].sha = AcceptedCommit.sha
        /\ target'[Len(target')].kind # "merge"]_vars

\* A step of the local git processPR that accepts its candidate.
GitAcceptStep == processPR_git /\ Len(mergedPRs') > Len(mergedPRs)

\* C16: under the merge-commit strategy of the local git variants, each accepted
\* candidate produces one commit on the integration branch of the working copy, with
\* two parents: the head of the branch before the candidate (the commit before it in
\* the history) and the head of the candidate's source ref.
C16_MergeCommitHasTwoParents ==
  [][GitAcceptStep =>
        /\ Len(local'.hist) = Len(local.hist) + 1
        /\ SubSeq(local'.hist, 1, Len(local.hist)) = local.hist
        /\ local'.hist[Len(local'.hist)].kind = "merge"
        /\ local'.hist[Len(local'.hist)].pr = prs[idx]]_vars

\* The integration branch as the run works on it: the branch of the working copy in
\* the local git variants, the remote branch in the others.
WorkBranch == IF variant \in GitVariants THEN local.hist ELSE target

\* The records of this run: main's list and those it has put in the ledger file.
RecordsOfRun ==
  Range(mergedPRs) \cup {r \in Range(Ledger(target)) : r.ts = run /\ r.target # "ext"}

\* C17: every MergeRecord of a run names the candidate, the integration branch as
\* target, and as commit the commit that the candidate's application put on the
\* integration branch (checked while no other writer has touched the branch).
C17_RecordNamesBranchCommit ==
  ext = "idle" =>
    \A r \in RecordsOfRun :
       /\ r.target = "target"
       /\ \E i \in 1..Len(WorkBranch) :
             /\ WorkBranch[i].sha = r.commit
             /\ WorkBranch[i].pr = r.pr
             /\ WorkBranch[i].by = "run"

\* The pull requests accepted by this run once the step is taken.
AcceptedAfter == {attempts'[i].pr : i \in {j \in 1..Len(attempts') : attempts'[j].ok}}

\* A commit that may be seen on the integration branch: one that was there, a trunk
\* commit, a commit of the ledger file, or the commit of a candidate this run has
\* accepted.
Committed(c) ==
  \/ c \in Range(target)
  \/ c \in Range(trunk)
  \/ c.kind = "ledger"
  \/ c.kind \in {"compose", "merge"} /\ c.by = "run" /\ c.pr \in AcceptedAfter

\* C18: whatever step the run is interrupted after, the integration branch that
\* others read is in a committed state: every step of the tool that changes the
\* remote branch leaves on it only commits that were there, trunk commits, and the
\* finished commits of candidates the run has accepted (and of the ledger file);
\* a commit created for a candidate is not on the branch before the candidate is
\* accepted, and never if the candidate fails.
C18_OnlyCommittedStatesVisible ==
  [][(Program /\ target' # target) => \A c \in Range(target') : Committed(c)]_vars

\* A candidate of the tree composition failed at the reference update after its
\* commit had been created: the commit is not on the branch.
C18_Witness ==
  /\ variant \in TreeVariants /\ run = 1 /\ ext = "idle"
  /\ fails = 1 /\ candFails = 1
  /\ target # <<>> /\ ~HasLedger(target)
  /\ Skipped # {}
  /\ nextSha > 1
  /\ \A i \in 1..Len(target) : target[i].kind # "compose"

\* Branch preparation is over and the run has not ended in a fatal error.
PastPreparation ==
  IF variant \in GitVariants THEN pc \in {"loop", "history", "push", "done"}
                             ELSE pc \notin {"start", "prepare", "fatal"}

\* The writes of the integration branch pointer that create or reset it.
PointerWrites == {k \in 1..Len(writes) : writes[k].op = "create"}

\* C19: in every run, branch preparation makes exactly one write of the integration
\* branch pointer (a create or a reset), before the first candidate is processed, and
\* no creation or reset happens once candidate processing has started. For the local
\* git variants the write is the reset of the working copy's branch.
C19_OnePointerWriteBeforeCandidates ==
  /\ \A k \in PointerWrites : writes[k].cand = 0
  /\ PastPreparation =>
       IF variant \in GitVariants THEN local.hist # <<>>
                                  ELSE Cardinality(PointerWrites) = 1

\* The qualified list under the required labels required.
QualifiedSet(required) == Range(filterPRs(variant, required))

\* C20: adding a label to a non-empty required set cannot shrink the qualified set
\* under the any-of rule and cannot grow it under the all-of rule: when the run has
\* computed its qualified list from the required set R, the list computed from R
\* plus any label l contains it (hasAnyLabel) or is contained in it (hasAllLabels,
\* hasRequiredLabels).
C20_LabelRuleMonotonic ==
  (Filtered /\ cfg # <<>>) =>
     \A l \in LabelPool :
        IF variant \in {"git_all", "api_merge"}
        THEN QualifiedSet(Append(cfg, l)) \subseteq Range(prs)
        ELSE Range(prs) \subseteq QualifiedSet(Append(cfg, l))

\* Under the any-of rule the pull request does not qualify with R and qualifies
\* with R plus a label.
C20_Witness ==
  /\ Filtered /\ cfg # <<>> /\ variant \notin {"git_all", "api_merge"}
  /\ prs = <<>>
  /\ \E l \in LabelPool : QualifiedSet(Append(cfg, l)) # {}

\* The commits the tree composition has made for candidates: those on the
\* integration branch and the one processPR is about to reference.
ComposedCommits ==
  {c \in Range(target) \cup Range(newCommit) : c.kind = "compose" /\ c.by = "run"}

\* C21: in the tree composition a candidate with an empty commit list, or with a
\* commit that cannot be fetched, is skipped with nothing created; so every commit
\* made for a candidate has exactly one tree entry pr-<id>/<commit> for every commit
\* of the candidate's commit list, and that list is not empty.
C21_ComposedTreeIsComplete ==
  \A c \in ComposedCommits : c.tree = Paths(c.pr) /\ PR(c.pr).ncommits > 0

\* The records a write-back of the ledger adds.
NewRecords ==
  IF variant = "api_merge"
  THEN <<[pr |-> prs[idx], commit |-> newCommit[1].sha, target |-> "target", ts |-> run]>>
  ELSE mergedPRs

\* C22: a ledger file that does not exist is read as an empty ledger, with no error:
\* the update goes on to the write, and the ledger it writes consists of exactly the
\* new records. A read that fails otherwise ends the update with nothing written.
C22_MissingLedgerReadsAsEmpty ==
  [][/\ (getHistoryContent /\ fails' = fails /\ ~HasLedger(target)) =>
           (pc' = "h_write" /\ content'.merges = <<>>)
     /\ (getHistoryContent /\ fails' # fails) =>
           (pc' = "h_cleanup" /\ target' = target /\ writes' = writes)
     /\ (LedgerWriteBack /\ ~HasLedger(target) /\ target' # target) =>
           Ledger(target') = NewRecords]_vars

\* The ledger file did not exist when the update read it, and the update has
\* written a ledger of one record, the candidate's.
C22_Witness ==
  /\ variant = "api_merge" /\ pc = "h_cleanup" /\ fails = 0 /\ ext = "idle"
  /\ content.sha = <<>>
  /\ Len(Ledger(target)) = 1
  /\ Ledger(target)[1].pr = prs[idx]

\* The candidates main is done with are the first ones of the qualified list, in its
\* order, each once; the loop index is at the next one; and past the loop every
\* qualified candidate has been handled.
SinglePass ==
  /\ Len(attempts) <= Len(prs)
  /\ \A i \in 1..Len(attempts) : attempts[i].pr = prs[i]
  /\ pc \in {"loop", "pr_build", "pr_update", "h_read", "h_write", "h_cleanup"} =>
        idx = Len(attempts) + 1
  /\ pc \in {"history", "push", "done"} => Len(attempts) = Len(prs)

\* C23: a run is a single pass that terminates: each qualified candidate is attempted
\* exactly once, in the order of the list, one finished before the next starts, no
\* failed step is taken again, and every run that starts comes to its end.
C23_SinglePassTerminates ==
  /\ []SinglePass
  /\ (pc = "start") ~> RunEnded

\* A run has ended after two candidates, one skipped and one accepted.
C23_Witness ==
  /\ pc = "done" /\ Len(attempts) = 2
  /\ Skipped # {} /\ Accepted # {}

\* C24: no step of the program writes to the trunk, so its head after the run is its
\* head at the start; and every commit made for an accepted candidate lands on the
\* integration branch.
C24_TrunkIsNeverWritten ==
  [][/\ Program => trunk' = trunk
     /\ RunEnded' => trunk' = trunkBefore'
     /\ AcceptStep => (AcceptedCommit \in Range(target') /\ AcceptedCommit \notin Range(trunk'))]_vars

\* C25: no step of the program deletes or moves the source ref of a candidate, under
\* every merge strategy: the source refs after a step are those before it.
C25_SourceRefsAreNeverTouched ==
  [][Program => srcRefs' = srcRefs]_vars

\* The number of records of this run that the persisted ledger holds for candidate id.
RecordCount(id) == Cardinality({i \in DOMAIN RunRecords : RunRecords[i] = id})

\* C26: when a run has ended without a fatal error, every candidate it accepted has
\* exactly one record of this run in the persisted ledger, and no candidate has two.
C26_OneRecordPerAcceptedCandidate ==
  pc = "done" =>
    \A id \in Range(prs) :
      /\ RecordCount(id) <= 1
      /\ id \in AcceptedIds => RecordCount(id) = 1

\* C27: in the local-git variants a candidate that is skipped leaves the working copy
\* as it was before it (same history checked out, no merge in progress), and a
\* candidate that comes after a skipped one and meets no failure of its own is
\* accepted.
C27_SkippedCandidateLeavesWorkingCopy ==
  [][processPR_git =>
       /\ ~attempts'[Len(attempts')].ok => local' = local
       /\ (Skipped # {} /\ fails' = fails) => attempts'[Len(attempts')].ok]_vars

=============================================================================
